---- MODULE Spec2Model ----
(***************************************************************************)
(* A model of app.py, the GitHub developer performance dashboard:          *)
(* collect_github_data, calculate_metrics, create_visualizations,          *)
(* process_query and the script main() that chains them.                   *)
(*                                                                         *)
(* Python values are tagged records: [type |-> "NoneType"], a dict is      *)
(* [type |-> "dict", ...], a str result is [type |-> "str", value |-> s],  *)
(* an uncaught exception is [type |-> "raise", exc |-> name].  Text that   *)
(* the code searches (the query, the URL) is a sequence of one-character   *)
(* strings.  Numbers that Python holds as floats are exact rationals       *)
(* [num |-> n, den |-> d] in lowest terms.                                 *)
(***************************************************************************)
EXTENDS Integers, Sequences, FiniteSets, TLC

VARIABLES pc, repo_url, repo, raw_data, metrics, query, result, ui, calls

vars == <<pc, repo_url, repo, raw_data, metrics, query, result, ui, calls>>

-----------------------------------------------------------------------------
(* Bounds of the model.                                                    *)

\* most items (commits + pull requests + issues + reviews) in a repository
MaxItems == 4

\* most items in a repository of the whole-script specification
MainItems == 3

\* most vocabulary words in a query
MaxWords == 6

-----------------------------------------------------------------------------
(* Python values.                                                          *)

None == [type |-> "NoneType"]

Str(s) == [type |-> "str", value |-> s]

TypeError == [type |-> "raise", exc |-> "TypeError"]

\* bool(v) as `if v:` takes it
Truthy(v) ==
  CASE v.type = "NoneType" -> FALSE
    [] v.type = "dict" -> TRUE
    [] v.type = "datetime" -> TRUE
    [] v.type = "str" -> v.value # ""

-----------------------------------------------------------------------------
(* Exact rationals for the float arithmetic.                               *)

Abs(n) == IF n < 0 THEN -n ELSE n

RECURSIVE Gcd(_, _)
Gcd(a, b) == IF b = 0 THEN a ELSE Gcd(b, a % b)

\* n / d, d # 0, in lowest terms with a positive denominator
Rat(n, d) ==
  LET g == Gcd(Abs(n), Abs(d))
      s == IF d < 0 THEN -1 ELSE 1
  IN  [num |-> (s * n) \div g, den |-> (s * d) \div g]

Zero == Rat(0, 1)

RatAdd(x, y) == Rat(x.num * y.den + y.num * x.den, x.den * y.den)

RatSub(x, y) == Rat(x.num * y.den - y.num * x.den, x.den * y.den)

RatMulInt(x, k) == Rat(x.num * k, x.den)

RatDivInt(x, k) == Rat(x.num, x.den * k)

RatLeq(x, y) == x.num * y.den <= y.num * x.den

RECURSIVE RatSum(_)
RatSum(s) == IF s = <<>> THEN Zero ELSE RatAdd(Head(s), RatSum(Tail(s)))

\* the nearest integer to x, ties to the even one (how format rounds an
\* exactly representable tie)
RoundHalfEven(x) ==
  LET fl == x.num \div x.den
      r2 == 2 * (x.num - fl * x.den)
  IN  IF r2 < x.den THEN fl
      ELSE IF r2 > x.den THEN fl + 1
      ELSE IF fl % 2 = 0 THEN fl ELSE fl + 1

\* the digits "d.dd" of a number whose hundredths round to h; the sign is
\* the number's own, so a small negative number prints as "-0.00"
Fixed2(neg, h) ==
  LET a == Abs(h)
      f == a % 100
  IN  (IF neg THEN "-" ELSE "") \o ToString(a \div 100) \o "."
        \o (IF f < 10 THEN "0" ELSE "") \o ToString(f)

\* format(x, ".2f")
Format2f(x) == Fixed2(x.num < 0, RoundHalfEven(RatMulInt(x, 100)))

\* format(x, ".2%")
Format2pct(x) == Fixed2(x.num < 0, RoundHalfEven(RatMulInt(x, 10000))) \o "%"

-----------------------------------------------------------------------------
(* Text: str.lower and the `in` substring test.                            *)

UpperCase == <<"A","B","C","D","E","F","G","H","I","J","K","L","M",
               "N","O","P","Q","R","S","T","U","V","W","X","Y","Z">>

LowerCase == <<"a","b","c","d","e","f","g","h","i","j","k","l","m",
               "n","o","p","q","r","s","t","u","v","w","x","y","z">>

LowerChar(c) ==
  IF \E i \in 1..Len(UpperCase) : UpperCase[i] = c
  THEN LowerCase[CHOOSE i \in 1..Len(UpperCase) : UpperCase[i] = c]
  ELSE c

\* s.lower()
lower(s) == [i \in 1..Len(s) |-> LowerChar(s[i])]

\* needle in hay
Contains(needle, hay) ==
  \E i \in 1..(Len(hay) - Len(needle) + 1) :
    SubSeq(hay, i, i + Len(needle) - 1) = needle

kw_commit == <<"c","o","m","m","i","t">>
kw_frequency == <<"f","r","e","q","u","e","n","c","y">>
kw_pr == <<"p","r">>
kw_pull_request == <<"p","u","l","l"," ","r","e","q","u","e","s","t">>
kw_merge == <<"m","e","r","g","e">>
kw_rate == <<"r","a","t","e">>
kw_issue == <<"i","s","s","u","e">>
kw_resolution == <<"r","e","s","o","l","u","t","i","o","n">>
kw_time == <<"t","i","m","e">>
kw_review == <<"r","e","v","i","e","w">>
kw_new_contributors == <<"n","e","w"," ","c","o","n","t","r","i","b","u","t","o","r","s">>

-----------------------------------------------------------------------------
(* The data PyGithub hands to collect_github_data.                         *)

DateTime(t) == [type |-> "datetime", t |-> t]

\* datetime.now() of the request, in seconds
Now == 3456000

SecondsPerDay == 86400

\* timedelta(days=30), and the divisor of commit_frequency
WindowDays == 30

SecondsPerHour == 3600

\* a - b of two datetimes, .total_seconds() / 3600; None - datetime raises
HoursBetween(a, b) ==
  IF a.type = "datetime" /\ b.type = "datetime"
  THEN Rat(a.t - b.t, SecondsPerHour)
  ELSE TypeError

Authors == {"alice", "bob", "carol"}

\* an instant inside the 30-day window
T0 == Now - 10 * SecondsPerDay

\* an instant before the window opens
TOld == Now - 35 * SecondsPerDay

CommitSet == [author : Authors]

PullSet == [created_at : {DateTime(TOld), DateTime(T0)}, merged : BOOLEAN]

IssueSet ==
  [created_at : {DateTime(T0), DateTime(T0 + 7200)},
   closed_at : {None, DateTime(T0 + 3600), DateTime(T0 + 7200)}]

\* a review belongs to pull request number pr of the repository
ReviewSet(np) ==
  [pr : 1..np,
   created_at : {DateTime(T0), DateTime(T0 + 7200)},
   submitted_at : {None, DateTime(T0 + 3600), DateTime(T0 + 7200)}]

RepoSet(nc, np, ni, nr) ==
  [commits : [1..nc -> CommitSet], pulls : [1..np -> PullSet],
   issues : [1..ni -> IssueSet], reviews : [1..nr -> ReviewSet(np)]]

\* every repository with at most n items in all
Repos(n) ==
  UNION { UNION { UNION { UNION {
    RepoSet(nc, np, ni, nr) :
      nr \in 0..(IF np = 0 THEN 0 ELSE n - nc - np - ni) } :
      ni \in 0..(n - nc - np) } :
      np \in 0..(n - nc) } :
      nc \in 0..n }

\* 15 commits by 3 authors, one merged pull request with one review of two
\* hours, one issue closed after an hour
ExampleRepo ==
  [commits |-> [i \in 1..15 |->
                  [author |-> IF i % 3 = 0 THEN "alice"
                              ELSE IF i % 3 = 1 THEN "bob" ELSE "carol"]],
   pulls |-> <<[created_at |-> DateTime(T0), merged |-> TRUE]>>,
   issues |-> <<[created_at |-> DateTime(T0), closed_at |-> DateTime(T0 + 3600)]>>,
   reviews |-> <<[pr |-> 1, created_at |-> DateTime(T0),
                  submitted_at |-> DateTime(T0 + 7200)]>>]

EmptyRepo == [commits |-> <<>>, pulls |-> <<>>, issues |-> <<>>, reviews |-> <<>>]

\* one commit, three pull requests of which one merged, two reviews, three
\* issues of which two closed
MixedRepo ==
  [commits |-> <<[author |-> "alice"]>>,
   pulls |-> <<[created_at |-> DateTime(T0), merged |-> TRUE],
               [created_at |-> DateTime(T0), merged |-> FALSE],
               [created_at |-> DateTime(T0), merged |-> FALSE]>>,
   issues |-> <<[created_at |-> DateTime(T0), closed_at |-> DateTime(T0 + 3600)],
                [created_at |-> DateTime(T0), closed_at |-> None],
                [created_at |-> DateTime(T0), closed_at |-> DateTime(T0 + 7200)]>>,
   reviews |-> <<[pr |-> 1, created_at |-> DateTime(T0),
                  submitted_at |-> DateTime(T0 + 3600)],
                 [pr |-> 2, created_at |-> DateTime(T0 + 7200),
                  submitted_at |-> DateTime(T0 + 7200)]>>]

SampleRepos == {EmptyRepo, ExampleRepo, MixedRepo}

AllRepos == Repos(MaxItems) \cup {ExampleRepo}

MainRepos == Repos(MainItems) \cup {ExampleRepo}

-----------------------------------------------------------------------------
(* collect_github_data                                                     *)

url_https_github == <<"h","t","t","p","s",":","/","/","g","i","t","h","u","b">>

url_com_slash == <<"c","o","m","/">>

\* the least k in from..Len(s) with s[k] = "/", or Len(s) + 1
NextSlash(s, from) ==
  IF \E k \in from..Len(s) : s[k] = "/"
  THEN CHOOSE k \in from..Len(s) :
         s[k] = "/" /\ \A j \in from..(k - 1) : s[j] # "/"
  ELSE Len(s) + 1

\* re.match(r"https://github.com/([^/]+)/([^/]+)", url): the two groups, or
\* None.  The pattern is anchored at the start only, and its "." takes any
\* character but a newline.
re_match(url) ==
  LET n == Len(url)
      k == NextSlash(url, 20)
      e == NextSlash(url, k + 1)
  IN  IF /\ n >= 19
         /\ SubSeq(url, 1, 14) = url_https_github
         /\ url[15] # "\n"
         /\ SubSeq(url, 16, 19) = url_com_slash
         /\ k >= 21
         /\ k < n
         /\ e >= k + 2
      THEN [type |-> "match", owner |-> SubSeq(url, 20, k - 1),
            repo_name |-> SubSeq(url, k + 1, e - 1)]
      ELSE None

start_date == Now - WindowDays * SecondsPerDay

\* start_date <= pr.created_at <= end_date
InWindow(pr) == start_date <= pr.created_at.t /\ pr.created_at.t <= Now

\* the indices of the pull requests of gh that pass the date filter
RECURSIVE PullsInWindow(_, _)
PullsInWindow(gh, i) ==
  IF i > Len(gh.pulls) THEN <<>>
  ELSE (IF InWindow(gh.pulls[i]) THEN <<i>> ELSE <<>>) \o PullsInWindow(gh, i + 1)

\* pr.get_reviews() for each kept pull request, appended in order
RECURSIVE ReviewsOf(_, _)
ReviewsOf(gh, idxs) ==
  IF idxs = <<>> THEN <<>>
  ELSE SelectSeq(gh.reviews, LAMBDA r : r.pr = Head(idxs)) \o ReviewsOf(gh, Tail(idxs))

\* a slip: the set is built of the commits, not of their authors
Contributors_PerCommit(commits) ==
  {<<i, commits[i].author>> : i \in 1..Len(commits)}

\* {commit.author.login for commit in commits}
Contributors(commits) == {commits[i].author : i \in 1..Len(commits)}

\* a slip: the `return None` after "Invalid GitHub repository URL" is
\* missing, and the function goes on to read the repository
collect_github_data_NoReturn(url, gh, access) ==
  IF ~access
  THEN [errors |-> <<"Error accessing GitHub">>, value |-> None]
  ELSE LET idxs == PullsInWindow(gh, 1)
       IN  [errors |-> IF re_match(url) = None
                       THEN <<"Invalid GitHub repository URL">> ELSE <<>>,
            value |->
              [type |-> "dict",
               commits |-> gh.commits,
               pull_requests |-> [j \in 1..Len(idxs) |-> gh.pulls[idxs[j]]],
               issues |-> gh.issues,
               code_reviews |-> ReviewsOf(gh, idxs),
               new_contributors |-> Cardinality(Contributors(gh.commits))]]

\* collect_github_data(repo_url) reading repository gh; access is whether
\* Github(...).get_repo(...) succeeds.  The st.error messages it shows and
\* the value it returns.
collect_github_data(url, gh, access) ==
  IF re_match(url) = None
  THEN [errors |-> <<"Invalid GitHub repository URL">>, value |-> None]
  ELSE IF ~access
  THEN [errors |-> <<"Error accessing GitHub">>, value |-> None]
  ELSE LET idxs == PullsInWindow(gh, 1)
       IN  [errors |-> <<>>,
            value |->
              [type |-> "dict",
               commits |-> gh.commits,
               pull_requests |-> [j \in 1..Len(idxs) |-> gh.pulls[idxs[j]]],
               issues |-> gh.issues,
               code_reviews |-> ReviewsOf(gh, idxs),
               new_contributors |-> Cardinality(Contributors(gh.commits))]]

-----------------------------------------------------------------------------
(* calculate_metrics                                                       *)

commit_frequency(raw) ==
  IF Len(raw.commits) > 0 THEN Rat(Len(raw.commits), WindowDays) ELSE Zero

\* a slip: with no pull request the rate defaults to 1
pr_merge_rate_DefaultOne(raw) ==
  IF Len(raw.pull_requests) > 0
  THEN Rat(Len(SelectSeq(raw.pull_requests, LAMBDA pr : pr.merged)),
           Len(raw.pull_requests))
  ELSE Rat(1, 1)

\* a slip: the pull requests counted are those not merged
pr_merge_rate_Unmerged(raw) ==
  IF Len(raw.pull_requests) > 0
  THEN Rat(Len(SelectSeq(raw.pull_requests, LAMBDA pr : ~pr.merged)),
           Len(raw.pull_requests))
  ELSE Zero

pr_merge_rate(raw) ==
  IF Len(raw.pull_requests) > 0
  THEN Rat(Len(SelectSeq(raw.pull_requests, LAMBDA pr : pr.merged)),
           Len(raw.pull_requests))
  ELSE Zero

\* a slip: the sum over the closed issues is divided by the number of all
\* issues
avg_issue_resolution_time_AllIssues(raw) ==
  LET closed_issues == SelectSeq(raw.issues, LAMBDA issue : Truthy(issue.closed_at))
      resolution_times ==
        [i \in 1..Len(closed_issues) |->
           HoursBetween(closed_issues[i].closed_at, closed_issues[i].created_at)]
  IN  IF Len(closed_issues) > 0
      THEN RatDivInt(RatSum(resolution_times), Len(raw.issues))
      ELSE Zero

avg_issue_resolution_time(raw) ==
  LET closed_issues == SelectSeq(raw.issues, LAMBDA issue : Truthy(issue.closed_at))
      resolution_times ==
        [i \in 1..Len(closed_issues) |->
           HoursBetween(closed_issues[i].closed_at, closed_issues[i].created_at)]
  IN  IF Len(closed_issues) > 0
      THEN RatDivInt(RatSum(resolution_times), Len(resolution_times))
      ELSE Zero

\* the subtraction raises TypeError on a review whose submitted_at is None
avg_review_turnaround_time(raw) ==
  LET review_times ==
        [i \in 1..Len(raw.code_reviews) |->
           HoursBetween(raw.code_reviews[i].submitted_at, raw.code_reviews[i].created_at)]
  IN  IF Len(raw.code_reviews) > 0
      THEN IF \E i \in 1..Len(review_times) : review_times[i] = TypeError
           THEN TypeError
           ELSE RatDivInt(RatSum(review_times), Len(review_times))
      ELSE Zero

\* calculate_metrics(raw_data): the metrics dict, or the exception it raises
calculate_metrics(raw) ==
  IF avg_review_turnaround_time(raw) = TypeError
  THEN TypeError
  ELSE [type |-> "dict",
        commit_frequency |-> commit_frequency(raw),
        pr_merge_rate |-> pr_merge_rate(raw),
        avg_issue_resolution_time |-> avg_issue_resolution_time(raw),
        avg_review_turnaround_time |-> avg_review_turnaround_time(raw),
        new_contributors |-> raw.new_contributors]

-----------------------------------------------------------------------------
(* create_visualizations                                                   *)

One == Rat(1, 1)

\* the figures handed to st.plotly_chart, in order
create_visualizations(m) ==
  (IF "commit_frequency" \in DOMAIN m
   THEN <<[chart |-> "bar", title |-> "Average Daily Commit Frequency",
           values |-> <<m.commit_frequency>>]>>
   ELSE <<>>)
  \o
  (IF "pr_merge_rate" \in DOMAIN m
   THEN <<[chart |-> "pie", title |-> "Pull Request Merge Rate",
           values |-> <<m.pr_merge_rate, RatSub(One, m.pr_merge_rate)>>]>>
   ELSE <<>>)
  \o
  (IF "avg_issue_resolution_time" \in DOMAIN m
   THEN <<[chart |-> "bar", title |-> "Average Issue Resolution Time",
           values |-> <<m.avg_issue_resolution_time>>]>>
   ELSE <<>>)
  \o
  (IF "avg_review_turnaround_time" \in DOMAIN m
   THEN <<[chart |-> "bar", title |-> "Average Code Review Turnaround Time",
           values |-> <<m.avg_review_turnaround_time>>]>>
   ELSE <<>>)
  \o
  (IF "new_contributors" \in DOMAIN m
   THEN <<[chart |-> "bar", title |-> "Number of New Contributors",
           values |-> <<m.new_contributors>>]>>
   ELSE <<>>)

-----------------------------------------------------------------------------
(* process_query                                                           *)

CommitFrequencySentence(m) ==
  "The average daily commit frequency is " \o Format2f(m.commit_frequency)
    \o " commits per day."

MergeRateSentence(m) ==
  "The pull request merge rate is " \o Format2pct(m.pr_merge_rate) \o "."

IssueResolutionSentence(m) ==
  "The average issue resolution time is "
    \o Format2f(m.avg_issue_resolution_time) \o " hours."

ReviewTurnaroundSentence(m) ==
  "The average code review turnaround time is "
    \o Format2f(m.avg_review_turnaround_time) \o " hours."

NewContributorsSentence(m) ==
  "The number of new contributors in the last 30 days is "
    \o ToString(m.new_contributors) \o "."

FallbackSentence ==
  "I'm sorry, I couldn't understand your query. Please try asking about commit frequency, PR merge rate, issue resolution time, review turnaround time, or new contributors."

\* a slip: the issue rule is tested before the pull-request rule
process_query_IssueFirst(q0, m) ==
  LET q == lower(q0)
  IN  IF Contains(kw_commit, q) /\ Contains(kw_frequency, q)
      THEN Str(CommitFrequencySentence(m))
      ELSE IF Contains(kw_issue, q)
                /\ (Contains(kw_resolution, q) \/ Contains(kw_time, q))
      THEN Str(IssueResolutionSentence(m))
      ELSE IF Contains(kw_pr, q) \/ Contains(kw_pull_request, q)
      THEN IF Contains(kw_merge, q) \/ Contains(kw_rate, q)
           THEN Str(MergeRateSentence(m))
           ELSE None
      ELSE IF Contains(kw_review, q) /\ Contains(kw_time, q)
      THEN Str(ReviewTurnaroundSentence(m))
      ELSE IF Contains(kw_new_contributors, q)
      THEN Str(NewContributorsSentence(m))
      ELSE Str(FallbackSentence)

\* process_query(query, metrics): the value the call returns.  The branch
\* of line 151 has an inner if with no else: when it is taken and the inner
\* test fails the function falls off its end and returns None.
process_query(q0, m) ==
  LET q == lower(q0)
  IN  IF Contains(kw_commit, q) /\ Contains(kw_frequency, q)
      THEN Str(CommitFrequencySentence(m))
      ELSE IF Contains(kw_pr, q) \/ Contains(kw_pull_request, q)
      THEN IF Contains(kw_merge, q) \/ Contains(kw_rate, q)
           THEN Str(MergeRateSentence(m))
           ELSE None
      ELSE IF Contains(kw_issue, q)
                /\ (Contains(kw_resolution, q) \/ Contains(kw_time, q))
      THEN Str(IssueResolutionSentence(m))
      ELSE IF Contains(kw_review, q) /\ Contains(kw_time, q)
      THEN Str(ReviewTurnaroundSentence(m))
      ELSE IF Contains(kw_new_contributors, q)
      THEN Str(NewContributorsSentence(m))
      ELSE Str(FallbackSentence)

-----------------------------------------------------------------------------
(* The texts typed into the two st.text_input boxes.                       *)

Vocabulary ==
  <<<<"c","o","m","m","i","t">>,
     <<"f","r","e","q","u","e","n","c","y">>,
     <<"p","r">>,
     <<"p","u","l","l"," ","r","e","q","u","e","s","t">>,
     <<"m","e","r","g","e">>,
     <<"r","a","t","e">>,
     <<"i","s","s","u","e">>,
     <<"r","e","s","o","l","u","t","i","o","n">>,
     <<"t","i","m","e">>,
     <<"r","e","v","i","e","w">>,
     <<"n","e","w"," ","c","o","n","t","r","i","b","u","t","o","r","s">>,
     <<"w","i","d","g","e","t","s">>,
     <<"C","o","m","m","i","t"," ","F","r","e","q","u","e","n","c","y">>,
     <<"P","R">>,
     <<"p","r","a","n","k">>>>

\* the words of Vocabulary numbered in S, from word i on, joined by spaces
RECURSIVE Join(_, _)
Join(S, i) ==
  IF i > Len(Vocabulary) THEN <<>>
  ELSE IF i \in S
       THEN LET rest == Join(S, i + 1)
            IN  IF rest = <<>> THEN Vocabulary[i] ELSE Vocabulary[i] \o <<" ">> \o rest
       ELSE Join(S, i + 1)

\* the same, last word first
RECURSIVE JoinBack(_, _)
JoinBack(S, i) ==
  IF i < 1 THEN <<>>
  ELSE IF i \in S
       THEN LET rest == JoinBack(S, i - 1)
            IN  IF rest = <<>> THEN Vocabulary[i] ELSE Vocabulary[i] \o <<" ">> \o rest
       ELSE JoinBack(S, i - 1)

WordSets == {S \in SUBSET (1..Len(Vocabulary)) : Cardinality(S) <= MaxWords}

q_commit_frequency == <<"W","h","a","t"," ","i","s"," ","t","h","e"," ","c","o","m","m","i","t"," ","f","r","e","q","u","e","n","c","y","?">>

q_widgets == <<"t","e","l","l"," ","m","e"," ","a","b","o","u","t"," ","w","i","d","g","e","t","s">>

q_pr_issue_time == <<"h","o","w"," ","m","u","c","h"," ","t","i","m","e"," ","d","o"," ","p","r"," ","i","s","s","u","e","s"," ","t","a","k","e">>

\* queries of at most MaxWords vocabulary words, in either order
Queries ==
  {Join(S, 1) : S \in WordSets} \cup {JoinBack(S, Len(Vocabulary)) : S \in WordSets}
    \cup {q_commit_frequency, q_widgets, q_pr_issue_time}

MainQueries == {<<>>, q_commit_frequency, q_widgets, q_pr_issue_time}

url_valid == <<"h","t","t","p","s",":","/","/","g","i","t","h","u","b",".","c","o","m","/","o","/","r">>

url_deep == <<"h","t","t","p","s",":","/","/","g","i","t","h","u","b",".","c","o","m","/","o","/","r","/","p","u","l","l","s">>

url_dash == <<"h","t","t","p","s",":","/","/","g","i","t","h","u","b","-","c","o","m","/","o","/","r">>

url_http == <<"h","t","t","p",":","/","/","g","i","t","h","u","b",".","c","o","m","/","o","/","r">>

url_no_repo == <<"h","t","t","p","s",":","/","/","g","i","t","h","u","b",".","c","o","m","/","o">>

url_no_owner == <<"h","t","t","p","s",":","/","/","g","i","t","h","u","b",".","c","o","m","/","/","r">>

Urls == {<<>>, url_valid, url_deep, url_dash, url_http, url_no_repo, url_no_owner}

-----------------------------------------------------------------------------
(* main(): one run of the script per request.                              *)

NoOutput == [errors |-> <<>>, charts |-> <<>>, written |-> <<>>]

\* the script about to run for repository gh
AtStart(gh) ==
  /\ pc = "start"
  /\ repo = gh
  /\ repo_url = <<>>
  /\ raw_data = None
  /\ metrics = None
  /\ query = <<>>
  /\ result = None
  /\ ui = NoOutput
  /\ calls = <<>>

\* line 172-174: the URL box; an empty URL ends the run
EnterUrl(U) ==
  /\ pc = "start"
  /\ \E url \in U :
       /\ repo_url' = url
       /\ pc' = IF url # <<>> THEN "collect" ELSE "done"
  /\ UNCHANGED <<repo, raw_data, metrics, query, result, ui, calls>>

\* line 176-178: raw_data = collect_github_data(repo_url); if raw_data:
Collect ==
  /\ pc = "collect"
  /\ \E access \in BOOLEAN :
       LET r == collect_github_data(repo_url, repo, access)
       IN  /\ raw_data' = r.value
           /\ ui' = [ui EXCEPT !.errors = @ \o r.errors]
           /\ pc' = IF Truthy(r.value) THEN "calculate" ELSE "done"
  /\ calls' = Append(calls, "collect_github_data")
  /\ UNCHANGED <<repo_url, repo, metrics, query, result>>

\* line 180: metrics = calculate_metrics(raw_data); an exception ends the run
Calculate ==
  /\ pc = "calculate"
  /\ LET m == calculate_metrics(raw_data)
     IN  IF m.type = "raise"
         THEN /\ metrics' = metrics
              /\ ui' = [ui EXCEPT !.errors = Append(@, m.exc)]
              /\ pc' = "crashed"
         ELSE /\ metrics' = m
              /\ ui' = ui
              /\ pc' = "visualize"
  /\ calls' = Append(calls, "calculate_metrics")
  /\ UNCHANGED <<repo_url, repo, raw_data, query, result>>

\* line 183: create_visualizations(metrics)
Visualize ==
  /\ pc = "visualize"
  /\ ui' = [ui EXCEPT !.charts = @ \o create_visualizations(metrics)]
  /\ calls' = Append(calls, "create_visualizations")
  /\ pc' = "ask"
  /\ UNCHANGED <<repo_url, repo, raw_data, metrics, query, result>>

\* line 186-189: the query box; if query: st.write(process_query(...))
Ask(Q) ==
  /\ pc = "ask"
  /\ \E q \in Q :
       /\ query' = q
       /\ IF q # <<>>
          THEN /\ result' = process_query(q, metrics)
               /\ ui' = [ui EXCEPT !.written = Append(@, process_query(q, metrics))]
               /\ calls' = Append(calls, "process_query")
          ELSE UNCHANGED <<result, ui, calls>>
  /\ pc' = "done"
  /\ UNCHANGED <<repo_url, repo, raw_data, metrics>>

\* the next request runs the script from its top, on the repository as it
\* then is
Rerun ==
  /\ pc \in {"done", "crashed"}
  /\ pc' = "start"
  /\ repo' \in {repo} \cup SampleRepos
  /\ repo_url' = <<>>
  /\ raw_data' = None
  /\ metrics' = None
  /\ query' = <<>>
  /\ result' = None
  /\ ui' = NoOutput
  /\ calls' = <<>>

Init == \E gh \in MainRepos : AtStart(gh)

Next ==
  \/ EnterUrl(Urls)
  \/ Collect
  \/ Calculate
  \/ Visualize
  \/ Ask(MainQueries)
  \/ Rerun

Spec == Init /\ [][Next]_vars

-----------------------------------------------------------------------------
(* The aggregator on every bounded repository: the script at line 176 with *)
(* a valid URL entered.                                                    *)

InitMetrics ==
  \E gh \in AllRepos :
    /\ pc = "collect"
    /\ repo = gh
    /\ repo_url = url_valid
    /\ raw_data = None
    /\ metrics = None
    /\ query = <<>>
    /\ result = None
    /\ ui = NoOutput
    /\ calls = <<>>

NextMetrics == Collect \/ Calculate

SpecMetrics == InitMetrics /\ [][NextMetrics]_vars

-----------------------------------------------------------------------------
(* The query resolver on every bounded query: the script at line 186, the  *)
(* charts of a sample repository drawn.                                    *)

InitQuery ==
  \E gh \in SampleRepos :
    LET raw == collect_github_data(url_valid, gh, TRUE).value
        m == calculate_metrics(raw)
    IN  /\ pc = "ask"
        /\ repo = gh
        /\ repo_url = url_valid
        /\ raw_data = raw
        /\ metrics = m
        /\ query = <<>>
        /\ result = None
        /\ ui = [NoOutput EXCEPT !.charts = create_visualizations(m)]
        /\ calls = <<"collect_github_data", "calculate_metrics", "create_visualizations">>

NextQuery == Ask(Queries)

SpecQuery == InitQuery /\ [][NextQuery]_vars

-----------------------------------------------------------------------------
(* The query resolver, stated on the query the request asked.              *)

\* process_query was the last call of the run, and it returned
Answered ==
  pc = "done" /\ calls # <<>> /\ calls[Len(calls)] = "process_query"

Has(kw) == Contains(kw, lower(query))

Rule1 == Has(kw_commit) /\ Has(kw_frequency)

Rule2 == (Has(kw_pr) \/ Has(kw_pull_request)) /\ (Has(kw_merge) \/ Has(kw_rate))

Rule3 == Has(kw_issue) /\ (Has(kw_resolution) \/ Has(kw_time))

Rule4 == Has(kw_review) /\ Has(kw_time)

Rule5 == Has(kw_new_contributors)

Templates(m) ==
  {Str(CommitFrequencySentence(m)), Str(MergeRateSentence(m)),
   Str(IssueResolutionSentence(m)), Str(ReviewTurnaroundSentence(m)),
   Str(NewContributorsSentence(m)), Str(FallbackSentence)}

\* C1: whatever the query and the metrics record, process_query returns a
\* string that is one of the six templates, never None.
C1_AlwaysATemplate == Answered => result \in Templates(metrics)

\* C2: a query that satisfies neither rule 1 nor rule 2 as a whole gets the
\* issue-resolution sentence if it has "issue" and ("resolution" or
\* "time"), else the review-turnaround sentence if it has "review" and
\* "time", else the new-contributors sentence if it has "new contributors".
C2_FallThrough ==
  (Answered /\ ~Rule1 /\ ~Rule2) =>
    /\ Rule3 => result = Str(IssueResolutionSentence(metrics))
    /\ (~Rule3 /\ Rule4) => result = Str(ReviewTurnaroundSentence(metrics))
    /\ (~Rule3 /\ ~Rule4 /\ Rule5) => result = Str(NewContributorsSentence(metrics))

\* C3: a query that satisfies none of rules 1-5 gets the fixed fallback
\* string, the same for every metrics record.
C3_Fallback ==
  (Answered /\ ~Rule1 /\ ~Rule2 /\ ~Rule3 /\ ~Rule4 /\ ~Rule5) =>
    result = Str(FallbackSentence)

\* C4: matching ignores case and earlier rules win: a query with "commit"
\* and "frequency" gets the commit-frequency sentence whatever else it has,
\* and a query not of rule 1 with ("pr" or "pull request") and ("merge" or
\* "rate") gets the merge-rate sentence whatever else it has.
C4_EarlierRulesWin ==
  Answered =>
    /\ Rule1 => result = Str(CommitFrequencySentence(metrics))
    /\ (~Rule1 /\ Rule2) => result = Str(MergeRateSentence(metrics))

\* C4 witness: a query in capitals that satisfies rule 2 and rule 3 and not rule 1 was
\* answered with the merge rate
C4_Witness ==
  /\ Answered
  /\ query # lower(query)
  /\ ~Rule1 /\ Rule2 /\ Rule3
  /\ result = Str(MergeRateSentence(metrics))

-----------------------------------------------------------------------------
(* The aggregator, stated on the data the request collected.               *)

\* calculate_metrics was called on raw_data
Called == raw_data.type = "dict" /\ Len(calls) >= 2

\* calculate_metrics returned a record
Returned == Called /\ metrics.type = "dict"

IsSome(v) == v.type = "datetime"

RECURSIVE SumSeconds(_, _, _)
\* the seconds from created_at to field `until` summed over the items of s
\* that have the field
SumSeconds(s, until, i) ==
  IF i > Len(s) THEN 0
  ELSE (IF IsSome(s[i][until]) THEN s[i][until].t - s[i].created_at.t ELSE 0)
         + SumSeconds(s, until, i + 1)

CountSome(s, until) == Cardinality({i \in 1..Len(s) : IsSome(s[i][until])})

\* the mean, in hours, over the items of s that have the field; 0 if none
MeanHours(s, until) ==
  IF CountSome(s, until) = 0 THEN Zero
  ELSE Rat(SumSeconds(s, until, 1), SecondsPerHour * CountSome(s, until))

AllZero(m) ==
  /\ m.commit_frequency = Zero
  /\ m.pr_merge_rate = Zero
  /\ m.avg_issue_resolution_time = Zero
  /\ m.avg_review_turnaround_time = Zero
  /\ m.new_contributors = 0

EmptyWindow ==
  /\ raw_data.commits = <<>>
  /\ raw_data.pull_requests = <<>>
  /\ raw_data.issues = <<>>
  /\ raw_data.code_reviews = <<>>

\* C5: on an empty window calculate_metrics returns, without raising, a
\* record whose five fields are 0; and in any record it returns, a metric
\* whose own collection is empty is 0 whatever the other collections hold.
C5_EmptyIsZero ==
  /\ (Called /\ EmptyWindow) => (pc # "crashed" /\ Returned /\ AllZero(metrics))
  /\ Returned =>
       /\ raw_data.commits = <<>> =>
            (metrics.commit_frequency = Zero /\ metrics.new_contributors = 0)
       /\ raw_data.pull_requests = <<>> => metrics.pr_merge_rate = Zero
       /\ raw_data.issues = <<>> => metrics.avg_issue_resolution_time = Zero
       /\ raw_data.code_reviews = <<>> => metrics.avg_review_turnaround_time = Zero

\* C5 witness: the record of an empty window
C5_Witness == Returned /\ EmptyWindow /\ AllZero(metrics)

\* C6: avg_review_turnaround_time is the mean of (submitted - created) in
\* hours over the reviews that have a submitted timestamp; a review without
\* one is left out and does not make calculate_metrics fail; 0 if no review
\* has one.
C6_ReviewMeanOverSubmitted ==
  Called =>
    /\ pc # "crashed"
    /\ Returned =>
         metrics.avg_review_turnaround_time
           = MeanHours(raw_data.code_reviews, "submitted_at")

\* C7: avg_issue_resolution_time is the mean of (closed - created) in hours
\* over the closed issues only: open issues change nothing, and it is 0
\* when no issue is closed.
C7_IssueMeanOverClosed ==
  Returned =>
    /\ metrics.avg_issue_resolution_time = MeanHours(raw_data.issues, "closed_at")
    /\ metrics.avg_issue_resolution_time
         = calculate_metrics(
             [raw_data EXCEPT !.issues =
                SelectSeq(@, LAMBDA issue : IsSome(issue.closed_at))]
           ).avg_issue_resolution_time
    /\ CountSome(raw_data.issues, "closed_at") = 0 =>
         metrics.avg_issue_resolution_time = Zero

\* C7 witness: one issue closed after 3600 s and one open issue: 1 hour
C7_Witness ==
  /\ Returned
  /\ Len(raw_data.issues) = 2
  /\ CountSome(raw_data.issues, "closed_at") = 1
  /\ SumSeconds(raw_data.issues, "closed_at", 1) = 3600
  /\ metrics.avg_issue_resolution_time = Rat(1, 1)

NumMerged == Cardinality({i \in 1..Len(raw_data.pull_requests) : raw_data.pull_requests[i].merged})

\* C8: pr_merge_rate is merged / all when there is a pull request and 0
\* otherwise; it lies in [0, 1]; it is 1 exactly when there are pull
\* requests and all are merged, and 0 exactly when none is merged.
C8_MergeRate ==
  Returned =>
    LET n == Len(raw_data.pull_requests)
        r == metrics.pr_merge_rate
    IN  /\ r = IF n > 0 THEN Rat(NumMerged, n) ELSE Zero
        /\ RatLeq(Zero, r) /\ RatLeq(r, Rat(1, 1))
        /\ r = Rat(1, 1) <=> (n > 0 /\ NumMerged = n)
        /\ r = Zero <=> NumMerged = 0

\* C8 witness: pull requests of which some but not all are merged
C8_Witness ==
  /\ Returned
  /\ NumMerged > 0
  /\ NumMerged < Len(raw_data.pull_requests)
  /\ metrics.pr_merge_rate = Rat(1, 2)

DistinctAuthors(commits) ==
  Cardinality({a \in Authors : \E i \in 1..Len(commits) : commits[i].author = a})

\* C9: commit_frequency * 30 is the number of commits and new_contributors
\* the number of distinct authors of those same commits; so new_contributors
\* is at most the number of commits, and is 0 exactly when commit_frequency
\* is 0.
C9_CommitsAndContributors ==
  Returned =>
    /\ raw_data.commits = repo.commits
    /\ RatMulInt(metrics.commit_frequency, 30) = Rat(Len(raw_data.commits), 1)
    /\ metrics.new_contributors = DistinctAuthors(raw_data.commits)
    /\ metrics.new_contributors <= Len(raw_data.commits)
    /\ metrics.new_contributors = 0 <=> metrics.commit_frequency = Zero

\* C9 witness: 15 commits by 3 authors: 0.5 commits a day, 3 contributors
C9_Witness ==
  /\ Returned
  /\ Len(raw_data.commits) = 15
  /\ metrics.commit_frequency = Rat(1, 2)
  /\ metrics.new_contributors = 3

-----------------------------------------------------------------------------
(* The script main(), stated on one request.                               *)

Pipeline ==
  <<"collect_github_data", "calculate_metrics", "create_visualizations", "process_query">>

\* the calls of the request so far are the first calls of the pipeline
InOrder == Len(calls) <= Len(Pipeline) /\ calls = SubSeq(Pipeline, 1, Len(calls))

WasCalled(f) == \E i \in 1..Len(calls) : calls[i] = f

ErrorShown(msg) == \E i \in 1..Len(ui.errors) : ui.errors[i] = msg

\* the request entered no URL, or its collection ended in an error
CollectionFailed ==
  \/ pc = "done" /\ repo_url = <<>>
  \/ ErrorShown("Invalid GitHub repository URL")
  \/ ErrorShown("Error accessing GitHub")

NothingDone ==
  /\ ~WasCalled("calculate_metrics")
  /\ metrics = None
  /\ ui.charts = <<>>
  /\ ui.written = <<>>

\* process_query is called only on the metrics calculate_metrics returned
\* for the data this request collected, and its answer is what is written
QueryOnOwnMetrics ==
  WasCalled("process_query") =>
    /\ raw_data = collect_github_data(repo_url, repo, TRUE).value
    /\ ui.errors = <<>>
    /\ metrics = calculate_metrics(raw_data)
    /\ metrics.type = "dict"
    /\ Len(ui.charts) = 5
    /\ query # <<>>
    /\ ui.written = <<result>>

====
